---- MODULE Spec2Model ----
(***************************************************************************)
(* Model of the FastIron defect extraction pipeline                        *)
(* (src/extract_issues.py): the merge of per-document defect maps into the *)
(* ledger (merge_defects) and the page loop of one document                *)
(* (extract_defects_from_pdf).                                             *)
(*                                                                         *)
(* Python strings that the code orders or scans (version strings) are      *)
(* sequences of one-character strings; Ord gives the code point that       *)
(* Python's string comparison uses.                                        *)
(***************************************************************************)
EXTENDS Integers, Sequences, FiniteSets, TLC

\* ------------------------------------------------------------------ bounds

\* Number of per-document maps handed to merge_defects.
MaxDocs == 3

\* Number of maps in the runs that hold two defects per map.
MaxPairDocs == 2

\* Number of pages of a document.
MaxPages == 3

\* ----------------------------------------------------------------- strings

\* Code points of the characters that occur in the strings the code orders
\* (version strings, defect ids and filenames).
Ord ==
    ("-" :> 45) @@ ("A" :> 65) @@ ("B" :> 66) @@ ("F" :> 70) @@ ("I" :> 73) @@
    ("." :> 46) @@ ("0" :> 48) @@ ("1" :> 49) @@ ("2" :> 50) @@ ("3" :> 51) @@
    ("4" :> 52) @@ ("5" :> 53) @@ ("6" :> 54) @@ ("7" :> 55) @@ ("8" :> 56) @@
    ("9" :> 57) @@ ("_" :> 95) @@ ("a" :> 97) @@ ("b" :> 98) @@ ("c" :> 99) @@
    ("d" :> 100) @@
    ("e" :> 101) @@ ("f" :> 102) @@ ("g" :> 103) @@ ("h" :> 104) @@ ("i" :> 105)
    @@ ("j" :> 106) @@ ("k" :> 107) @@ ("l" :> 108) @@ ("m" :> 109) @@ ("n" :>
    110) @@ ("o" :> 111) @@ ("p" :> 112) @@ ("q" :> 113) @@ ("r" :> 114) @@ ("s"
    :> 115) @@ ("t" :> 116) @@ ("u" :> 117) @@ ("v" :> 118) @@ ("w" :> 119) @@
    ("x" :> 120) @@ ("y" :> 121) @@ ("z" :> 122)

Digits == {"0", "1", "2", "3", "4", "5", "6", "7", "8", "9"}

DigitVal(c) == Ord[c] - Ord["0"]

\* Python's < on str: lexicographic by code point, a proper prefix is smaller.
RECURSIVE StrLess(_, _)
StrLess(a, b) ==
    IF a = <<>> THEN b # <<>>
    ELSE IF b = <<>> THEN FALSE
    ELSE IF Ord[a[1]] # Ord[b[1]] THEN Ord[a[1]] < Ord[b[1]]
    ELSE StrLess(Tail(a), Tail(b))

\* Python's None where the code stores a string or None.  The code tells the two
\* apart by truth value only, and '' is false as well.
None == <<>>

\* The empty string ''.
EmptyStr == <<>>

\* sorted(..., reverse=True): a plausible slip.
RECURSIVE SortedReversed(_)
SortedReversed(S) ==
    IF S = {} THEN <<>>
    ELSE LET m == CHOOSE x \in S : \A y \in S : y = x \/ StrLess(y, x)
         IN  <<m>> \o SortedReversed(S \ {m})

\* sorted(defect['version_history'].keys()): plain string order.
RECURSIVE Sorted(_)
Sorted(S) ==
    IF S = {} THEN <<>>
    ELSE LET m == CHOOSE x \in S : \A y \in S : y = x \/ StrLess(x, y)
         IN  <<m>> \o Sorted(S \ {m})

\* ------------------------------------------------- strings: scanning helpers

\* Characters that \s and str.strip() treat as whitespace.
Whitespace == {" ", "\t", "\n", "\r"}

UpperCase == <<"A", "B", "C", "D", "E", "F", "G", "H", "I", "J", "K", "L", "M", "N", "O", "P", "Q", "R", "S", "T", "U", "V", "W", "X", "Y", "Z">>

LowerCase == <<"a", "b", "c", "d", "e", "f", "g", "h", "i", "j", "k", "l", "m", "n", "o", "p", "q", "r", "s", "t", "u", "v", "w", "x", "y", "z">>

Letters == {LowerCase[i] : i \in 1..Len(LowerCase)} \cup {UpperCase[i] : i \in 1..Len(UpperCase)}

\* The lower-case letter of every upper-case letter.
LowerOf == [c \in {UpperCase[i] : i \in 1..Len(UpperCase)} |->
               LowerCase[CHOOSE i \in 1..Len(UpperCase) : UpperCase[i] = c]]

LowerChar(c) == IF c \in DOMAIN LowerOf THEN LowerOf[c] ELSE c

\* str.lower()
Lower(s) == [i \in 1..Len(s) |-> LowerChar(s[i])]

\* s[n:] (a slice past the end is empty)
Drop(s, n) == IF n >= Len(s) THEN <<>> ELSE SubSeq(s, n + 1, Len(s))

\* s[:n] (a slice past the end stops at the end)
Take(s, n) == IF n >= Len(s) THEN s ELSE SubSeq(s, 1, n)

\* Length of the longest prefix of s made of characters of set.
RECURSIVE Run(_, _)
Run(s, set) ==
    IF s = <<>> \/ Head(s) \notin set THEN 0 ELSE 1 + Run(Tail(s), set)

\* Length of the longest prefix of s made of digits.
DigitRun(s) == Run(s, Digits)

RECURSIVE RStrip(_)
RStrip(s) ==
    IF s # <<>> /\ s[Len(s)] \in Whitespace THEN RStrip(Take(s, Len(s) - 1)) ELSE s

\* str.strip()
Strip(s) == RStrip(Drop(s, Run(s, Whitespace)))

\* s.startswith(prefix)
StartsWith(s, prefix) == Len(s) >= Len(prefix) /\ Take(s, Len(prefix)) = prefix

\* The positions at which sub occurs in s.
Occurrences(sub, s) ==
    {i \in 1..(Len(s) - Len(sub) + 1) : SubSeq(s, i, i + Len(sub) - 1) = sub}

\* sub in s
Contains(sub, s) == Occurrences(sub, s) # {}

\* text.replace('\n', ' ').replace('\r', ' ')
NewlinesToSpaces(s) == [i \in 1..Len(s) |-> IF s[i] \in {"\n", "\r"} THEN " " ELSE s[i]]

\* re.sub(r'\s+', ' ', text)
RECURSIVE CollapseWhitespace(_)
CollapseWhitespace(s) ==
    IF s = <<>> THEN <<>>
    ELSE IF Head(s) \in Whitespace
         THEN <<" ">> \o CollapseWhitespace(Drop(s, Run(s, Whitespace)))
         ELSE <<Head(s)>> \o CollapseWhitespace(Tail(s))

\* clean_text: '' for an empty value, else newlines to spaces, runs of
\* whitespace to one space, stripped.
clean_text(text) ==
    IF text = EmptyStr THEN EmptyStr
    ELSE Strip(CollapseWhitespace(NewlinesToSpaces(text)))

\* ------------------------------------------ extract_version_from_filename

S_fastiron == <<"f", "a", "s", "t", "i", "r", "o", "n", "-">>

S_releasenotes == <<"-", "r", "e", "l", "e", "a", "s", "e", "n", "o", "t", "e", "s">>

S_cd == <<"_", "c", "d">>

\* len(base_version) >= 5
BlockDigits == 5

\* The group of re.search(r'fastiron-([^-]+)-releasenotes', filename) at the
\* leftmost place the pattern matches, as a one-element sequence; <<>> without
\* a match.
FilenameMatch(filename) ==
    LET group(i) == Take(Drop(filename, i + Len(S_fastiron) - 1),
                         Run(Drop(filename, i + Len(S_fastiron) - 1),
                             {filename[k] : k \in 1..Len(filename)} \ {"-"}))
        ok == {i \in Occurrences(S_fastiron, filename) :
                  /\ group(i) # <<>>
                  /\ StartsWith(Drop(filename, i + Len(S_fastiron) - 1 + Len(group(i))),
                                S_releasenotes)}
    IN  IF ok = {} THEN <<>>
        ELSE <<group(CHOOSE i \in ok : \A j \in ok : i <= j)>>

\* version_str.split('_'): the pieces between the underscores.
RECURSIVE SplitUnderscore(_)
SplitUnderscore(s) ==
    LET n == Run(s, {s[k] : k \in 1..Len(s)} \ {"_"})
    IN  IF n = Len(s) THEN <<s>>
        ELSE <<Take(s, n)>> \o SplitUnderscore(Drop(s, n + 1))

\* str(int(two digits)): the leading zero removed.
StrInt2(dd) == IF dd[1] = "0" THEN <<dd[2]>> ELSE dd

\* The version of a release notes filename; None when there is none.
extract_version_from_filename(filename) ==
    LET match       == FilenameMatch(filename)
        version_str == match[1]
        has_cd      == Contains(S_cd, version_str)
        parts       == SplitUnderscore(version_str)
        with_suffix == IF has_cd THEN parts[1] ELSE version_str
        cd_suffix   == IF has_cd THEN <<"_">> \o parts[2] ELSE EmptyStr
        digit_end   == DigitRun(with_suffix)
        letter_suffix == Drop(with_suffix, digit_end)
        base_version  == Take(with_suffix, digit_end)
    IN  IF match = <<>> THEN None
        ELSE IF Len(base_version) >= BlockDigits
             THEN StrInt2(SubSeq(base_version, 1, 2)) \o <<".">>
                      \o <<base_version[3]>> \o <<".">>
                      \o SubSeq(base_version, 4, 5)
                      \o letter_suffix \o cd_suffix
             ELSE None

\* ------------------------------------------------------ parse_defect_table

\* A table is a sequence of rows, a row a sequence of cells, a cell a string
\* (None, which the code reads as '', is the empty string).

S_issue == <<"i", "s", "s", "u", "e">>

S_FI_dash == <<"F", "I", "-">>

\* if not table or len(table) < 7
MinRows == 7

\* re.match(r'FI-\d+', field_value)
MatchesFI(value) ==
    /\ StartsWith(value, S_FI_dash)
    /\ DigitRun(Drop(value, Len(S_FI_dash))) >= 1

\* The gate without the count of rows: a plausible slip.
is_defect_table_of_any_length(table) ==
    /\ Len(table) > 0
    /\ Len(table[1]) = 2
    /\ Lower(Strip(table[1][1])) = S_issue
    /\ MatchesFI(Strip(table[1][2]))

is_defect_table(table) ==
    /\ Len(table) >= MinRows
    /\ Len(table[1]) = 2
    /\ Lower(Strip(table[1][1])) = S_issue
    /\ MatchesFI(Strip(table[1][2]))

\* The group of re.match(r'(FI-\d+)', fi_text); None without a match.
extract_fi_number(table) ==
    IF Len(table) > 0 /\ Len(table[1]) >= 2 /\ MatchesFI(Strip(table[1][2]))
    THEN LET fi_text == Strip(table[1][2])
         IN  Take(fi_text, Len(S_FI_dash) + DigitRun(Drop(fi_text, Len(S_FI_dash))))
    ELSE None

\* r'FI\s*(\d+\.\d+\.\d+[a-z]*(?:_cd\d+)?)' with re.IGNORECASE, tried at the
\* start of t: whether it matches, the length matched and the group.  Every
\* repetition is greedy and none can give a character back to what follows it.
MatchCitation(t) ==
    LET ws   == Run(Drop(t, 2), Whitespace)
        b    == Drop(t, 2 + ws)
        d1   == DigitRun(b)
        c    == Drop(b, d1)
        d2   == DigitRun(Drop(c, 1))
        e    == Drop(c, 1 + d2)
        d3   == DigitRun(Drop(e, 1))
        f    == Drop(e, 1 + d3)
        l    == Run(f, Letters)
        g    == Drop(f, l)
        cd   == IF /\ Len(g) >= 4
                   /\ Lower(Take(g, 3)) = S_cd
                   /\ g[4] \in Digits
                THEN 3 + DigitRun(Drop(g, 3))
                ELSE 0
        glen == d1 + 1 + d2 + 1 + d3 + l + cd
    IN  [ok    |-> /\ Len(t) >= 2
                   /\ Lower(Take(t, 2)) = <<"f", "i">>
                   /\ d1 >= 1
                   /\ c # <<>> /\ c[1] = "."
                   /\ d2 >= 1
                   /\ e # <<>> /\ e[1] = "."
                   /\ d3 >= 1,
         len   |-> 2 + ws + glen,
         group |-> Take(b, glen)]

\* re.findall of that pattern: the groups of the matches, left to right.
RECURSIVE FindCitations(_)
FindCitations(s) ==
    IF s = <<>> THEN <<>>
    ELSE LET m == MatchCitation(s)
         IN  IF m.ok THEN <<m.group>> \o FindCitations(Drop(s, m.len))
             ELSE FindCitations(Tail(s))

\* One turn of 'for row in table': the first field whose name occurs in the
\* first cell takes the second cell.
ParseRow(defect, row) ==
    IF Len(row) < 2 THEN defect
    ELSE LET field_name  == Lower(Strip(row[1]))
             field_value == Strip(row[2])
         IN  IF Contains(<<"s", "y", "m", "p", "t", "o", "m">>, field_name)
             THEN [defect EXCEPT !.symptom = clean_text(field_value)]
             ELSE IF Contains(<<"c", "o", "n", "d", "i", "t", "i", "o", "n">>, field_name)
             THEN [defect EXCEPT !.condition = clean_text(field_value)]
             ELSE IF Contains(<<"w", "o", "r", "k", "a", "r", "o", "u", "n", "d">>, field_name)
             THEN [defect EXCEPT !.workaround = clean_text(field_value)]
             ELSE IF Contains(<<"r", "e", "c", "o", "v", "e", "r", "y">>, field_name)
             THEN [defect EXCEPT !.recovery = clean_text(field_value)]
             ELSE IF Contains(<<"p", "r", "o", "b", "a", "b", "i", "l", "i", "t", "y">>, field_name)
             THEN [defect EXCEPT !.probability = clean_text(field_value)]
             ELSE IF Contains(<<"f", "o", "u", "n", "d", " ", "i", "n">>, field_name)
             THEN [defect EXCEPT !.found_in = FindCitations(field_value)]
             ELSE IF Contains(<<"t", "e", "c", "h", "n", "o", "l", "o", "g", "y">>, field_name)
             THEN [defect EXCEPT !.technology = clean_text(field_value)]
             ELSE defect

RECURSIVE ParseRows(_, _)
ParseRows(defect, rows) ==
    IF rows = <<>> THEN defect
    ELSE ParseRows(ParseRow(defect, Head(rows)), Tail(rows))

\* The parser without the test of the symptom: a plausible slip.
parse_defect_table_without_symptom_gate(table) ==
    IF ~is_defect_table(table) THEN <<>>
    ELSE IF extract_fi_number(table) = None THEN <<>>
    ELSE <<ParseRows([id |-> extract_fi_number(table),
                      symptom |-> EmptyStr, condition |-> EmptyStr,
                      workaround |-> EmptyStr, recovery |-> EmptyStr,
                      probability |-> EmptyStr, found_in |-> <<>>,
                      technology |-> EmptyStr],
                     table)>>

\* The record of a table as a one-element sequence; <<>> where the code
\* returns None.
parse_defect_table(table) ==
    IF ~is_defect_table(table) THEN <<>>
    ELSE IF extract_fi_number(table) = None THEN <<>>
    ELSE LET defect ==
                 ParseRows([id |-> extract_fi_number(table),
                            symptom |-> EmptyStr, condition |-> EmptyStr,
                            workaround |-> EmptyStr, recovery |-> EmptyStr,
                            probability |-> EmptyStr, found_in |-> <<>>,
                            technology |-> EmptyStr],
                           table)
         IN  IF defect.symptom # EmptyStr THEN <<defect>> ELSE <<>>

\* ----------------------------------------------- determine_section_status

\* The section state None.
NoStatus == "none"

S_closed_issues == <<"c", "l", "o", "s", "e", "d", " ", "i", "s", "s", "u", "e", "s">>

S_with_code_changes == <<"w", "i", "t", "h", " ", "c", "o", "d", "e", " ", "c", "h", "a", "n", "g", "e", "s">>

S_known_issues == <<"k", "n", "o", "w", "n", " ", "i", "s", "s", "u", "e", "s">>

\* re.search(r'Closed Issues.*with Code Changes', page_text, re.IGNORECASE):
\* '.' matches every character but the newline.
MatchesClosed(page_text) ==
    LET text == Lower(page_text)
    IN  \E i \in Occurrences(S_closed_issues, text) :
            \E j \in Occurrences(S_with_code_changes, text) :
                /\ j >= i + Len(S_closed_issues)
                /\ \A k \in (i + Len(S_closed_issues))..(j - 1) : text[k] # "\n"

\* re.search(r'Known Issues', page_text, re.IGNORECASE)
MatchesKnown(page_text) == Contains(S_known_issues, Lower(page_text))

\* The two searches in the other order: a plausible slip.
determine_section_status_known_first(page_text) ==
    IF MatchesKnown(page_text) THEN "known"
    ELSE IF MatchesClosed(page_text) THEN "closed"
    ELSE NoStatus

determine_section_status(page_text) ==
    IF MatchesClosed(page_text) THEN "closed"
    ELSE IF MatchesKnown(page_text) THEN "known"
    ELSE NoStatus

\* ------------------------------------------------------- the input domains

V_8_0_90  == <<"8", ".", "0", ".", "9", "0">>
V_9_0_10  == <<"9", ".", "0", ".", "1", "0">>
V_10_0_10 == <<"1", "0", ".", "0", ".", "1", "0">>

\* Versions that extract_version_from_filename yields for the documents.
Versions == {V_8_0_90, V_9_0_10, V_10_0_10}

Statuses == {"closed", "known"}

FI_99  == <<"F", "I", "-", "9", "9">>
FI_100 == <<"F", "I", "-", "1", "0", "0">>

Ids == {FI_99, FI_100}

\* The ids of the tables of the documents.
FI_100203 == <<"F", "I", "-", "1", "0", "0", "2", "0", "3">>

FI_100204 == <<"F", "I", "-", "1", "0", "0", "2", "0", "4">>

\* The ids a ledger of the runs can hold.
LedgerIds == Ids \cup {FI_100203, FI_100204}

\* for field in ['symptom', 'condition', 'workaround', 'recovery',
\*               'probability', 'technology']
TextFields ==
    {"symptom", "condition", "workaround", "recovery", "probability", "technology"}

\* --------------------------------------------------------- per-document maps

\* The text fields of a record: the fields in filled hold tag, the rest ''.
TextOf(filled, tag) ==
    [f \in TextFields |-> IF f \in filled THEN tag ELSE EmptyStr]

\* One entry of the map extract_defects_from_pdf returns: the record
\* parse_defect_table built, plus version_history = {version: status}.
Record(id, texts, found, version, status) ==
    [id |-> id,
     symptom |-> texts["symptom"], condition |-> texts["condition"],
     workaround |-> texts["workaround"], recovery |-> texts["recovery"],
     probability |-> texts["probability"], technology |-> texts["technology"],
     found_in |-> found,
     version_history |-> (version :> status)]

\* Texts and 'Found In' citations of the records the merge is run on.  A record
\* has a symptom (parse_defect_table returns none without one).
TextProfiles ==
    {TextOf({"symptom"}, <<"a">>),
     TextOf({"symptom", "condition", "workaround"}, <<"b">>),
     TextOf(TextFields, <<"c">>)}

FoundLists == {<<>>, <<V_8_0_90, V_8_0_90>>, <<V_10_0_10, V_8_0_90>>}

\* The maps of one document: every record carries the document's version.
DocMaps(ids, versions, statuses, texts, founds) ==
    UNION {
        UNION { [D -> {Record(EmptyStr, t, f, v, s) :
                          t \in texts, f \in founds, s \in statuses}]
                : D \in SUBSET ids }
        : v \in versions }

\* The key of an entry is the id of its record (defects_by_fi[defect['id']]).
WithIds(m) == [fi \in DOMAIN m |-> [m[fi] EXCEPT !.id = fi]]

\* ------------------------------------------------------------ merge_defects

\* The state of merge_defects.
VARIABLES
    all_defects_by_pdf, \* the list passed to merge_defects (its records share
                        \* their found_in list object with the ledger)
    given,              \* the list as it was passed: never written
    merged,             \* merged: fi_num -> record
    pdf_idx,            \* position of the outer loop (0: not started)
    todo,               \* keys of the current map not yet visited
    list_owner,         \* fi_num -> index of the map whose found_in list object
                        \*           merged[fi_num]['found_in'] is
    pc                  \* "merge" | "done" | "written"

mergeVars == <<all_defects_by_pdf, given, merged, pdf_idx, todo, list_owner, pc>>

\* The state of extract_defects_from_pdf.
VARIABLES
    pdf_name,           \* pdf_path.name
    pages,              \* pdf.pages: each page's extract_text() and extract_tables()
    version,            \* the version of the filename
    page_num,           \* pages read so far
    tables,             \* tables of the current page not yet visited
    current_status,     \* the section state: NoStatus, "closed" or "known"
    defects_by_fi,      \* fi_num -> record
    pages_with_defects, \* tables that gave a record
    dpc                 \* "open" | "pages" | "tables" | "done" ("idle": not run)

docVars == <<pdf_name, pages, version, page_num, tables, current_status,
             defects_by_fi, pages_with_defects, dpc>>

\* The state of main (extract_issues.py) after the merge.
VARIABLES
    defects_list,       \* the list written to defects_data.json
    pdf_files,          \* the release notes found, sorted: each a name and pages
    file_idx,           \* documents extracted so far
    all_defects         \* the maps the documents gave, in order

mainVars == <<defects_list, pdf_files, file_idx, all_defects>>

\* The state of a call of clean_version (extract_features.py).
VARIABLES
    version_str,        \* the argument
    cleaned,            \* the value returned
    fpc                 \* "call" | "return" ("idle": not run)

featVars == <<version_str, cleaned, fpc>>

\* The state of a comparison of the two datasets (check_versions.py) for the
\* release of one filename release_block.
VARIABLES
    release_block,      \* the digits of the release in both filenames
    feature_versions,   \* versions of features_data.json
    defect_versions,    \* versions of defects_data.json
    overlap,            \* feature_versions.intersection(defect_versions)
    written,            \* the datasets written so far
    vpc                 \* "idle", "extract", "checked"

checkVars ==
    <<release_block, feature_versions, defect_versions, overlap, written, vpc>>

EmptyMap == [x \in {} |-> x]

\* dict.update that keeps the value already stored: a plausible slip.
DictUpdateKeepOld(a, b) ==
    [k \in DOMAIN a \cup DOMAIN b |-> IF k \in DOMAIN a THEN a[k] ELSE b[k]]

\* Assigning the new history instead of updating the stored one: a plausible slip.
DictReplace(a, b) == b

\* merged[fi_num]['version_history'].update(defect['version_history'])
DictUpdate(a, b) ==
    [k \in DOMAIN a \cup DOMAIN b |-> IF k \in DOMAIN b THEN b[k] ELSE a[k]]

\* Overwriting whenever the new value is non-empty: a plausible slip.
FillAlways(cur, new) == IF new # EmptyStr THEN new ELSE cur

\* if not merged[fi_num][field] and defect[field]:
\*     merged[fi_num][field] = defect[field]
FillIfEmpty(cur, new) == IF cur = EmptyStr /\ new # EmptyStr THEN new ELSE cur

\* Appending without the membership test: a plausible slip.
AppendAll(list, vs) == list \o vs

InList(v, list) == \E i \in 1..Len(list) : list[i] = v

\* for v in defect.get('found_in', []):
\*     if v not in merged[fi_num]['found_in']:
\*         merged[fi_num]['found_in'].append(v)
RECURSIVE AppendMissing(_, _)
AppendMissing(list, vs) ==
    IF vs = <<>> THEN list
    ELSE AppendMissing(IF InList(Head(vs), list) THEN list
                       ELSE Append(list, Head(vs)),
                       Tail(vs))

\* First time seeing this defect: the record of the ledger.  found_in is the
\* list object of the input record; version_history is a copy.
NewEntry(defect) ==
    [id |-> defect.id,
     symptom |-> defect.symptom, condition |-> defect.condition,
     workaround |-> defect.workaround, recovery |-> defect.recovery,
     probability |-> defect.probability, technology |-> defect.technology,
     found_in |-> defect.found_in,
     version_history |-> defect.version_history]

\* The else branch: the defect is already in the ledger.
UpdateEntry(m, defect) ==
    [m EXCEPT
        !.version_history = DictUpdate(@, defect.version_history),
        !.symptom     = FillIfEmpty(@, defect.symptom),
        !.condition   = FillIfEmpty(@, defect.condition),
        !.workaround  = FillIfEmpty(@, defect.workaround),
        !.recovery    = FillIfEmpty(@, defect.recovery),
        !.probability = FillIfEmpty(@, defect.probability),
        !.technology  = FillIfEmpty(@, defect.technology),
        !.found_in    = AppendMissing(@, defect.found_in)]

\* The first key of versions, whatever its status: a plausible slip.
FirstAny(versions, vh) == IF versions = <<>> THEN None ELSE versions[1]

\* defect['fixed_in'] = None
\* for v in versions:
\*     if defect['version_history'][v] == 'closed': fixed_in = v; break
RECURSIVE FirstClosed(_, _)
FirstClosed(versions, vh) ==
    IF versions = <<>> THEN None
    ELSE IF vh[Head(versions)] = "closed" THEN Head(versions)
    ELSE FirstClosed(Tail(versions), vh)

\* The second loop of merge_defects, for one defect.
Lifecycle(defect) ==
    LET vh       == defect.version_history
        versions == Sorted(DOMAIN vh)
    IN  [first_seen     |-> IF versions # <<>> THEN versions[1] ELSE None,
         fixed_in       |-> FirstClosed(versions, vh),
         current_status |-> IF versions # <<>> THEN vh[versions[Len(versions)]]
                            ELSE "unknown"]

InitMerge(inputs) ==
    /\ all_defects_by_pdf \in inputs
    /\ given = all_defects_by_pdf
    /\ merged = EmptyMap
    /\ pdf_idx = 0
    /\ todo = {}
    /\ list_owner = EmptyMap
    /\ pc = "merge"

\* for pdf_defects in all_defects_by_pdf:
NextPdf ==
    /\ pc = "merge"
    /\ todo = {}
    /\ pdf_idx < Len(all_defects_by_pdf)
    /\ pdf_idx' = pdf_idx + 1
    /\ todo' = DOMAIN all_defects_by_pdf[pdf_idx + 1]
    /\ UNCHANGED <<all_defects_by_pdf, given, merged, list_owner, pc>>
    /\ UNCHANGED <<docVars, mainVars, featVars, checkVars>>

\* One turn of the inner loop with fi_num not in merged.
MergeFirst(fi_num) ==
    /\ pc = "merge"
    /\ fi_num \in todo
    /\ fi_num \notin DOMAIN merged
    /\ merged' = merged @@ (fi_num :> NewEntry(all_defects_by_pdf[pdf_idx][fi_num]))
    /\ list_owner' = list_owner @@ (fi_num :> pdf_idx)
    /\ todo' = todo \ {fi_num}
    /\ UNCHANGED <<all_defects_by_pdf, given, pdf_idx, pc>>
    /\ UNCHANGED <<docVars, mainVars, featVars, checkVars>>

\* One turn of the inner loop with fi_num in merged.  The append goes to the
\* list object the ledger shares with the record that introduced the defect.
MergeAgain(fi_num) ==
    /\ pc = "merge"
    /\ fi_num \in todo
    /\ fi_num \in DOMAIN merged
    /\ LET entry == UpdateEntry(merged[fi_num], all_defects_by_pdf[pdf_idx][fi_num])
       IN  /\ merged' = [merged EXCEPT ![fi_num] = entry]
           /\ all_defects_by_pdf' =
                  [all_defects_by_pdf EXCEPT
                      ![list_owner[fi_num]][fi_num].found_in = entry.found_in]
    /\ todo' = todo \ {fi_num}
    /\ UNCHANGED <<given, pdf_idx, list_owner, pc>>
    /\ UNCHANGED <<docVars, mainVars, featVars, checkVars>>

\* for fi_num, defect in merged.items(): first_seen, fixed_in, current_status
Derive ==
    /\ pc = "merge"
    /\ todo = {}
    /\ pdf_idx = Len(all_defects_by_pdf)
    /\ merged' = [fi_num \in DOMAIN merged |-> merged[fi_num] @@ Lifecycle(merged[fi_num])]
    /\ pc' = "done"
    /\ UNCHANGED <<all_defects_by_pdf, given, pdf_idx, todo, list_owner>>
    /\ UNCHANGED <<docVars, mainVars, featVars, checkVars>>

\* defects_list = [merged_defects[fi] for fi in sorted(merged_defects.keys())]
DumpLedger ==
    /\ pc = "done"
    /\ defects_list' = [i \in 1..Len(Sorted(DOMAIN merged)) |->
                            merged[Sorted(DOMAIN merged)[i]]]
    /\ pc' = "written"
    /\ UNCHANGED <<all_defects_by_pdf, given, merged, pdf_idx, todo, list_owner>>
    /\ UNCHANGED <<pdf_files, file_idx, all_defects>>
    /\ UNCHANGED <<docVars, featVars, checkVars>>

NextMerge ==
    \/ NextPdf
    \/ \E fi_num \in LedgerIds : MergeFirst(fi_num)
    \/ \E fi_num \in LedgerIds : MergeAgain(fi_num)
    \/ Derive

\* merge_defects as a function of its argument: the first loop folded over the
\* entries (keys of one map are distinct, so their order within a map does not
\* matter), then the second loop.
RECURSIVE MergeMap(_, _, _)
MergeMap(acc, pdf_defects, keys) ==
    IF keys = {} THEN acc
    ELSE LET fi_num == CHOOSE k \in keys : TRUE
             defect == pdf_defects[fi_num]
             acc2   == IF fi_num \notin DOMAIN acc
                       THEN acc @@ (fi_num :> NewEntry(defect))
                       ELSE [acc EXCEPT ![fi_num] = UpdateEntry(@, defect)]
         IN  MergeMap(acc2, pdf_defects, keys \ {fi_num})

RECURSIVE MergeLoop(_, _)
MergeLoop(acc, maps) ==
    IF maps = <<>> THEN acc
    ELSE MergeLoop(MergeMap(acc, Head(maps), DOMAIN Head(maps)), Tail(maps))

MergeDefects(maps) ==
    LET acc == MergeLoop(EmptyMap, maps)
    IN  [fi_num \in DOMAIN acc |-> acc[fi_num] @@ Lifecycle(acc[fi_num])]

\* ------------------------------------------------ the documents of the runs

\* Rows of a defect table as the release notes print them.
DefectTable(fi, symptom, found) ==
    <<<<<<"I", "s", "s", "u", "e">>, fi>>,
      <<<<"S", "y", "m", "p", "t", "o", "m">>, symptom>>,
      <<<<"C", "o", "n", "d", "i", "t", "i", "o", "n">>, <<"W", "h", "e", "n", " ", " ", "p", "o", "r", "t", "\n", "f", "l", "a", "p", "s">>>>,
      <<<<"W", "o", "r", "k", "a", "r", "o", "u", "n", "d">>, <<"N", "o", "n", "e">>>>,
      <<<<"R", "e", "c", "o", "v", "e", "r", "y">>, EmptyStr>>,
      <<<<"P", "r", "o", "b", "a", "b", "i", "l", "i", "t", "y">>, <<" ", "L", "o", "w", " ">>>>,
      <<<<"F", "o", "u", "n", "d", " ", "I", "n">>, found>>,
      <<<<"T", "e", "c", "h", "n", "o", "l", "o", "g", "y", " ", "/", " ", "T", "e", "c", "h", "n", "o", "l", "o", "g", "y", "\n", "G", "r", "o", "u", "p">>, <<"L", "a", "y", "e", "r", " ", "2", " ", "-", " ", "L", "A", "G">>>>>>

Table_A1 == DefectTable(FI_100203, <<"D", "e", "v", "i", "c", "e", " ", "X", " ", "r", "e", "b", "o", "o", "t", "s">>, <<"F", "I", " ", "0", "8", ".", "0", ".", "9", "5">>)

\* The same defect again, as printed in another place of the document.
Table_A2 == DefectTable(FI_100203, <<"D", "e", "v", "i", "c", "e", " ", "X", "\n", "r", "e", "l", "o", "a", "d", "s">>, <<"F", "I", " ", "1", "0", ".", "0", ".", "1", "0", " ", "F", "I", " ", "0", "8", ".", "0", ".", "9", "5">>)

Table_B == DefectTable(FI_100204, <<"L", "A", "G", " ", "f", "l", "a", "p", "s">>, <<"F", "I", " ", "0", "8", ".", "0", ".", "9", "5", " ", "F", "I", " ", "0", "8", ".", "0", ".", "9", "5">>)

\* A table of three rows.
Table_Short ==
    <<<<<<"I", "s", "s", "u", "e">>, FI_100203>>,
      <<<<"S", "y", "m", "p", "t", "o", "m">>, <<"D", "e", "v", "i", "c", "e", " ", "X", " ", "r", "e", "b", "o", "o", "t", "s">>>>,
      <<<<"F", "o", "u", "n", "d", " ", "I", "n">>, <<"F", "I", " ", "8", ".", "0", ".", "9", "0">>>>>>

TableLists == {<<>>, <<Table_A1>>, <<Table_A2, Table_Short, Table_B>>}

PageTexts ==
    {<<"C", "l", "o", "s", "e", "d", " ", "I", "s", "s", "u", "e", "s", " ", "w", "i", "t", "h", " ", "C", "o", "d", "e", " ", "C", "h", "a", "n", "g", "e", "s">>,
     <<"K", "n", "o", "w", "n", " ", "I", "s", "s", "u", "e", "s">>,
     <<"I", "s", "s", "u", "e", " ", "F", "I", "-", "1", "0", "0", "2", "0", "3">>,
     <<"O", "v", "e", "r", "v", "i", "e", "w">>,
     <<"K", "n", "o", "w", "n", " ", "I", "s", "s", "u", "e", "s", "\n", "C", "l", "o", "s", "e", "d", " ", "I", "s", "s", "u", "e", "s", " ", "w", "i", "t", "h", " ", "C", "o", "d", "e", " ", "C", "h", "a", "n", "g", "e", "s">>}

Pages == [text : PageTexts, tables : TableLists]

\* A page with both headings, the closed one first.
Text_ClosedThenKnown == <<"C", "l", "o", "s", "e", "d", " ", "I", "s", "s", "u", "e", "s", " ", "w", "i", "t", "h", " ", "C", "o", "d", "e", " ", "C", "h", "a", "n", "g", "e", "s", "\n", "K", "n", "o", "w", "n", " ", "I", "s", "s", "u", "e", "s">>

\* The page texts of the table runs.
TablePageTexts == PageTexts \cup {Text_ClosedThenKnown}

PdfNames ==
    {<<"f", "a", "s", "t", "i", "r", "o", "n", "-", "0", "8", "0", "9", "5", "-", "r", "e", "l", "e", "a", "s", "e", "n", "o", "t", "e", "s", "-", "1", ".", "0", ".", "p", "d", "f">>,
     <<"f", "a", "s", "t", "i", "r", "o", "n", "-", "b", "a", "d", "n", "a", "m", "e", ".", "p", "d", "f">>}

\* ------------------------------------------ the tables of the table runs

\* table[:n] for every n up to one row more than the minimum.
RowCounts == {Take(Table_A1, n) : n \in 0..(MinRows + 1)}

\* Texts of the first cell of the first row.
FirstCells ==
    {<<"I", "s", "s", "u", "e">>,
     <<"I", "S", "S", "U", "E">>,
     <<" ", "i", "s", "s", "u", "e", " ">>,
     <<"I", "s", "s", "u", "e", "s">>,
     <<"S", "y", "m", "p", "t", "o", "m">>,
     EmptyStr}

\* Texts of the second cell of the first row.
SecondCells ==
    {<<"F", "I", "-", "1", "0", "0", "2", "0", "3">>,
     <<"F", "I", "-", "1", "0", "0", "2", "0", "3", " ", "(", "d", "u", "p", ")">>,
     <<" ", "F", "I", "-", "7">>,
     <<"F", "I", "-">>,
     <<"X", "F", "I", "-", "1", "2">>,
     <<"f", "i", "-", "1", "0", "0", "2", "0", "3">>,
     EmptyStr}

\* First rows of two cells, and of none, one and three.
FirstRows ==
    {<<a, b>> : a \in FirstCells, b \in SecondCells}
        \cup {<<>>, <<Table_A1[1][1]>>, <<Table_A1[1][1], FI_100203, FI_100203>>}

WithFirstRow(table, row) == <<row>> \o Tail(table)

\* Texts of the value of the Symptom row.
SymptomCells ==
    {<<"D", "e", "v", "i", "c", "e", " ", "X", " ", "r", "e", "b", "o", "o", "t", "s">>,
     <<" ", "\n", " ">>,
     EmptyStr}

\* Texts of the value of the Found In row.
FoundCells ==
    {<<"F", "I", " ", "8", ".", "0", ".", "9", "0">>,
     <<"F", "I", " ", "0", "8", ".", "1", ".", "5">>,
     <<"F", "I", " ", "1", "0", ".", "0", ".", "2", "0", "_", "c", "d", "1", "1", "1">>,
     <<"f", "i", "1", "0", ".", "0", ".", "2", "0", "A", "_", "c", "d", "1", ",", " ", "F", "I", " ", "0", "8", ".", "0", ".", "9", "5", "b">>,
     EmptyStr}

\* A table of eight rows none of which is a Symptom row.
Table_NoSymptom ==
    [Table_A1 EXCEPT ![2] = <<<<"N", "o", "t", "e", "s">>, Table_A1[2][2]>>]

TableCases ==
    RowCounts
        \cup {WithFirstRow(Table_A1, row) : row \in FirstRows}
        \cup {DefectTable(FI_100203, symptom, found) :
                 symptom \in SymptomCells, found \in FoundCells}
        \cup {Table_NoSymptom, Table_Short}

\* --------------------------------------------- the names of the name runs

\* The digits of the token of a filename.
NameBlocks ==
    {<<"0", "8", "0", "9", "5">>,
     <<"1", "0", "0", "2", "0">>,
     <<"0", "9", "0", "1", "0">>,
     <<"0", "8", "0", "9", "0", "1", "2">>,
     <<"0", "8", "0", "9">>,
     EmptyStr}

\* The letters after the digits.
NameLetters ==
    {EmptyStr,
     <<"a">>,
     <<"m", "c">>,
     <<"p", "b", "1">>,
     <<"B">>}

\* The CD suffix.
NameCds ==
    {EmptyStr,
     <<"_", "c", "d", "3">>,
     <<"_", "c", "d", "1", "2">>,
     <<"_", "c", "d">>}

S_releasenotes_pdf == <<"-", "r", "e", "l", "e", "a", "s", "e", "n", "o", "t", "e", "s", "-", "1", ".", "0", ".", "p", "d", "f">>

\* fastiron-<token>-releasenotes-1.0.pdf for every token of these parts.
FilenameCases ==
    {S_fastiron \o block \o letters \o cd \o S_releasenotes_pdf :
        block \in NameBlocks, letters \in NameLetters, cd \in NameCds}

\* The tables of the runs.
RunTables == UNION {{l[i] : i \in 1..Len(l)} : l \in TableLists} \cup TableCases

\* The functions of the code on the names, texts and tables of the runs, each
\* evaluated once.
version_of == [name \in PdfNames \cup FilenameCases |-> extract_version_from_filename(name)]

section_of == [page_text \in TablePageTexts |-> determine_section_status(page_text)]

has_fi == [page_text \in TablePageTexts |-> Contains(S_FI_dash, page_text)]

record_of == [table \in RunTables |-> parse_defect_table(table)]

\* ------------------------------------------------ extract_defects_from_pdf

InitDoc(names, page_lists) ==
    /\ pdf_name \in names
    /\ pages \in page_lists
    /\ version = None
    /\ page_num = 0
    /\ tables = <<>>
    /\ current_status = NoStatus
    /\ defects_by_fi = EmptyMap
    /\ pages_with_defects = 0
    /\ dpc = "open"

\* A document without a version read all the same: a plausible slip.
ReadUnversionedPdf ==
    /\ dpc = "open"
    /\ version_of[pdf_name] = None
    /\ current_status' = NoStatus
    /\ pages_with_defects' = 0
    /\ dpc' = "pages"
    /\ UNCHANGED <<pdf_name, pages, version, page_num, tables, defects_by_fi>>
    /\ UNCHANGED <<mergeVars, mainVars, featVars, checkVars>>

\* version = extract_version_from_filename(pdf_path.name); if not version: return
SkipPdf ==
    /\ dpc = "open"
    /\ version_of[pdf_name] = None
    /\ dpc' = "done"
    /\ UNCHANGED <<pdf_name, pages, version, page_num, tables, current_status,
                   defects_by_fi, pages_with_defects>>
    /\ UNCHANGED <<mergeVars, mainVars, featVars, checkVars>>

\* with pdfplumber.open(pdf_path) as pdf: current_status = None
OpenPdf ==
    /\ dpc = "open"
    /\ version_of[pdf_name] # None
    /\ version' = version_of[pdf_name]
    /\ current_status' = NoStatus
    /\ pages_with_defects' = 0
    /\ dpc' = "pages"
    /\ UNCHANGED <<pdf_name, pages, page_num, tables, defects_by_fi>>
    /\ UNCHANGED <<mergeVars, mainVars, featVars, checkVars>>

\* The section state taken from the page alone, nothing carried over: a
\* plausible slip.
StatusOfPageOnly(status, page_text) == section_of[page_text]

\* The section state after the text of a page has been applied.
StatusAfter(status, page_text) ==
    IF section_of[page_text] # NoStatus THEN section_of[page_text] ELSE status

\* The filter looking at the text alone, whatever the section state: a
\* plausible slip.
SkipsPageWithoutFI(status, page_text) == ~has_fi[page_text]

\* if not current_status and 'FI-' not in page_text: continue
SkipsPage(status, page_text) ==
    status = NoStatus /\ ~has_fi[page_text]

\* A page outside every issues section and without 'FI-' in its text.
SkipPage ==
    /\ dpc = "pages"
    /\ page_num < Len(pages)
    /\ LET page_text == pages[page_num + 1].text
       IN  /\ current_status' = StatusAfter(current_status, page_text)
           /\ SkipsPage(current_status', page_text)
    /\ page_num' = page_num + 1
    /\ UNCHANGED <<pdf_name, pages, version, tables, defects_by_fi,
                   pages_with_defects, dpc>>
    /\ UNCHANGED <<mergeVars, mainVars, featVars, checkVars>>

\* Any other page: tables = page.extract_tables()
ReadPage ==
    /\ dpc = "pages"
    /\ page_num < Len(pages)
    /\ LET page_text == pages[page_num + 1].text
       IN  /\ current_status' = StatusAfter(current_status, page_text)
           /\ ~SkipsPage(current_status', page_text)
    /\ page_num' = page_num + 1
    /\ tables' = pages[page_num + 1].tables
    /\ dpc' = "tables"
    /\ UNCHANGED <<pdf_name, pages, version, defects_by_fi, pages_with_defects>>
    /\ UNCHANGED <<mergeVars, mainVars, featVars, checkVars>>

\* defect = parse_defect_table(table); if not defect: continue
RejectTable ==
    /\ dpc = "tables"
    /\ tables # <<>>
    /\ record_of[Head(tables)] = <<>>
    /\ tables' = Tail(tables)
    /\ UNCHANGED <<pdf_name, pages, version, page_num, current_status,
                   defects_by_fi, pages_with_defects, dpc>>
    /\ UNCHANGED <<mergeVars, mainVars, featVars, checkVars>>

\* The default taken to be 'closed': a plausible slip.
StatusOrClosed(status) == IF status # NoStatus THEN status ELSE "closed"

\* status = current_status if current_status else 'known'
StatusOrKnown(status) == IF status # NoStatus THEN status ELSE "known"

\* The map after a table gave a record, the status written for a new key
\* never: a plausible slip.
RecordedWithoutStatus(map, defect, ver, status) ==
    LET fi_num == defect.id
    IN  [k \in DOMAIN map \cup {fi_num} |->
            IF k \in DOMAIN map THEN map[k]
            ELSE defect @@ [version_history |-> EmptyMap]]

\* The map after a table gave the record defect: a new key takes the record
\* with an empty version_history; then, new key or not,
\* defects_by_fi[fi_num]['version_history'][version] = status.
Recorded(map, defect, ver, status) ==
    LET fi_num == defect.id
        entry  == IF fi_num \notin DOMAIN map
                  THEN defect @@ [version_history |-> EmptyMap]
                  ELSE map[fi_num]
        stored == [entry EXCEPT
                      !.version_history = DictUpdate(@, ver :> StatusOrKnown(status))]
    IN  [k \in DOMAIN map \cup {fi_num} |-> IF k = fi_num THEN stored ELSE map[k]]

\* A table that gives a record.
RecordTable ==
    /\ dpc = "tables"
    /\ tables # <<>>
    /\ record_of[Head(tables)] # <<>>
    /\ pages_with_defects' = pages_with_defects + 1
    /\ defects_by_fi' = Recorded(defects_by_fi, record_of[Head(tables)][1],
                                 version, current_status)
    /\ tables' = Tail(tables)
    /\ UNCHANGED <<pdf_name, pages, version, page_num, current_status, dpc>>
    /\ UNCHANGED <<mergeVars, mainVars, featVars, checkVars>>

\* The tables of the page are exhausted: back to the page loop.
EndPage ==
    /\ dpc = "tables"
    /\ tables = <<>>
    /\ dpc' = "pages"
    /\ UNCHANGED <<pdf_name, pages, version, page_num, tables, current_status,
                   defects_by_fi, pages_with_defects>>
    /\ UNCHANGED <<mergeVars, mainVars, featVars, checkVars>>

\* return defects_by_fi
ReturnDefects ==
    /\ dpc = "pages"
    /\ page_num = Len(pages)
    /\ dpc' = "done"
    /\ UNCHANGED <<pdf_name, pages, version, page_num, tables, current_status,
                   defects_by_fi, pages_with_defects>>
    /\ UNCHANGED <<mergeVars, mainVars, featVars, checkVars>>

NextDoc ==
    \/ SkipPdf
    \/ OpenPdf
    \/ SkipPage
    \/ ReadPage
    \/ RejectTable
    \/ RecordTable
    \/ EndPage
    \/ ReturnDefects

\* extract_defects_from_pdf is not running.
DocIdle ==
    /\ pdf_name = EmptyStr
    /\ pages = <<>>
    /\ version = None
    /\ page_num = 0
    /\ tables = <<>>
    /\ current_status = NoStatus
    /\ defects_by_fi = EmptyMap
    /\ pages_with_defects = 0
    /\ dpc = "idle"

\* merge_defects is not running.
MergeIdle ==
    /\ all_defects_by_pdf = <<>>
    /\ given = <<>>
    /\ merged = EmptyMap
    /\ pdf_idx = 0
    /\ todo = {}
    /\ list_owner = EmptyMap
    /\ pc = "idle"

\* ------------------------------------------------------------ clean_version

\* clean_version of extract_features.py.

S_No == <<"N", "o">>

S_None == <<"N", "o", "n", "e">>

\* The characters re.sub(r'[^\d.a-zA-Z_]', '', version_str) keeps.
KeptChars == Digits \cup Letters \cup {".", "_"}

\* The re.sub with the underscore left out of its class: a plausible slip.
RemoveOthersAndUnderscores(s) == SelectSeq(s, LAMBDA c : c \in KeptChars \ {"_"})

RemoveOthers(s) == SelectSeq(s, LAMBDA c : c \in KeptChars)

\* re.match(r'^(\d{1,2})\.0\.(\d{2})([a-z]{0,2}(?:_cd\d{1,2})?)$', version_str,
\* re.IGNORECASE): whether a way to match exists, and its groups.
MatchVersion(s) ==
    LET cd_ok(t) == \/ t = <<>>
                    \/ /\ Lower(Take(t, 3)) = S_cd
                       /\ \E k \in {1, 2} :
                              /\ Len(t) = 3 + k
                              /\ DigitRun(Drop(t, 3)) = k
        suffix_ok(t) == \E l \in 0..2 :
                            /\ l <= Run(t, Letters)
                            /\ cd_ok(Drop(t, l))
        rest_ok(t) == /\ Take(t, 3) = <<".", "0", ".">>
                      /\ DigitRun(Drop(t, 3)) >= 2
                      /\ suffix_ok(Drop(t, 5))
        ways == {n \in {1, 2} : n <= DigitRun(s) /\ rest_ok(Drop(s, n))}
        n == IF ways = {} THEN 0 ELSE CHOOSE k \in ways : TRUE
    IN  [ok     |-> ways # {},
         major  |-> Take(s, n),
         patch  |-> Take(Drop(s, n + 3), 2),
         suffix |-> Drop(s, n + 5)]

\* str(int(major))
MajorText(major) ==
    IF Len(major) = 2 /\ major[1] = "0" THEN <<major[2]>> ELSE major

clean_version(raw) ==
    IF raw = EmptyStr THEN S_No
    ELSE IF Lower(Strip(raw)) = Lower(S_No) \/ Strip(raw) = EmptyStr \/ Strip(raw) = S_None
    THEN S_No
    ELSE IF RemoveOthers(Strip(raw)) = EmptyStr THEN S_No
    ELSE LET match == MatchVersion(RemoveOthers(Strip(raw)))
         IN  IF match.ok
             THEN MajorText(match.major) \o <<".", "0", ".">> \o match.patch
                      \o Lower(match.suffix)
             ELSE S_No

\* The raw tokens of the runs: the parts of a version, each written as the
\* grammar has it and otherwise, between marks as the matrices print them.
\* What comes before the version in a cell.
RawBefore ==
    {EmptyStr,
     <<" ">>,
     <<"(">>}

\* The major.
RawMajors ==
    {<<"8">>,
     <<"0", "8">>,
     <<"1", "0">>,
     <<"1", "0", "0">>}

\* The minor, between its dots.
RawMinors ==
    {<<".", "0", ".">>,
     <<".", "1", ".">>,
     <<" ", ".", "0", ".">>}

\* The patch.
RawPatches ==
    {<<"9", "0">>,
     <<"9">>,
     <<"9", "0", "1">>}

\* The suffix.
RawSuffixes ==
    {EmptyStr,
     <<"a">>,
     <<"A", "B">>,
     <<"a", "b", "c">>,
     <<"_", "c", "d", "1">>,
     <<"b", "_", "C", "D", "1", "2">>,
     <<"_", "c", "d", "1", "1", "1">>}

\* What comes after the version in a cell: footnote marks.
RawAfter ==
    {EmptyStr,
     <<"*">>,
     <<" ", "1">>,
     <<")">>}

\* Cells that hold no version.
RawWords ==
    {EmptyStr,
     <<"N", "o">>,
     <<"n", "o">>,
     <<" ", "N", "O", " ">>,
     <<"N", "o", "n", "e">>,
     <<"N", "/", "A">>,
     <<" ", " ">>,
     <<"*", "*", "*">>,
     <<"Y", "e", "s">>}

RawVersions ==
    {before \o major \o minor \o patch \o suffix \o after :
        before \in RawBefore, major \in RawMajors, minor \in RawMinors,
        patch \in RawPatches, suffix \in RawSuffixes, after \in RawAfter}
        \cup RawWords

InitClean(raws) ==
    /\ version_str \in raws
    /\ cleaned = None
    /\ fpc = "call"

\* if not version_str: return "No"
ReturnNoForNothing ==
    /\ fpc = "call"
    /\ version_str = EmptyStr
    /\ cleaned' = clean_version(version_str)
    /\ fpc' = "return"
    /\ UNCHANGED version_str
    /\ UNCHANGED <<mergeVars, docVars, mainVars, checkVars>>

\* if version_str.lower() == 'no' or version_str == '' or version_str == 'None'
ReturnNoForNo ==
    /\ fpc = "call"
    /\ version_str # EmptyStr
    /\ Lower(Strip(version_str)) = Lower(S_No) \/ Strip(version_str) = EmptyStr
           \/ Strip(version_str) = S_None
    /\ cleaned' = clean_version(version_str)
    /\ fpc' = "return"
    /\ UNCHANGED version_str
    /\ UNCHANGED <<mergeVars, docVars, mainVars, checkVars>>

\* if version_str == '': return "No" (after the re.sub)
ReturnNoForMarks ==
    /\ fpc = "call"
    /\ version_str # EmptyStr
    /\ ~(Lower(Strip(version_str)) = Lower(S_No) \/ Strip(version_str) = EmptyStr
           \/ Strip(version_str) = S_None)
    /\ RemoveOthers(Strip(version_str)) = EmptyStr
    /\ cleaned' = clean_version(version_str)
    /\ fpc' = "return"
    /\ UNCHANGED version_str
    /\ UNCHANGED <<mergeVars, docVars, mainVars, checkVars>>

\* if match: ... return result
ReturnVersion ==
    /\ fpc = "call"
    /\ clean_version(version_str) # S_No
    /\ cleaned' = clean_version(version_str)
    /\ fpc' = "return"
    /\ UNCHANGED version_str
    /\ UNCHANGED <<mergeVars, docVars, mainVars, checkVars>>

\* return "No" (the strict format is not matched)
ReturnNoForInvalid ==
    /\ fpc = "call"
    /\ RemoveOthers(Strip(version_str)) # EmptyStr
    /\ ~(Lower(Strip(version_str)) = Lower(S_No) \/ Strip(version_str) = S_None)
    /\ ~MatchVersion(RemoveOthers(Strip(version_str))).ok
    /\ cleaned' = clean_version(version_str)
    /\ fpc' = "return"
    /\ UNCHANGED version_str
    /\ UNCHANGED <<mergeVars, docVars, mainVars, checkVars>>

NextClean ==
    \/ ReturnNoForNothing
    \/ ReturnNoForNo
    \/ ReturnNoForMarks
    \/ ReturnVersion
    \/ ReturnNoForInvalid

\* ------------------------------------------------------------ check_versions

\* extract_version_from_filename of extract_features.py:
\* re.search(r'fastiron-(\d+)-', filename) at the leftmost place it matches,
\* and, for a group of 5 digits, the digits with dots after the second and the
\* third.
features_extract_version_from_filename(filename) ==
    LET digits(i) == DigitRun(Drop(filename, i + Len(S_fastiron) - 1))
        ok == {i \in Occurrences(S_fastiron, filename) :
                  /\ digits(i) >= 1
                  /\ StartsWith(Drop(filename, i + Len(S_fastiron) - 1 + digits(i)), <<"-">>)}
        first == CHOOSE i \in ok : \A j \in ok : i <= j
        version_string == Take(Drop(filename, first + Len(S_fastiron) - 1), digits(first))
    IN  IF ok = {} THEN None
        ELSE IF Len(version_string) = 5
        THEN SubSeq(version_string, 1, 2) \o <<".">> \o <<version_string[3]>>
                 \o <<".">> \o SubSeq(version_string, 4, 5)
        ELSE None

S_featurematrix_pdf == <<"-", "f", "e", "a", "t", "u", "r", "e", "s", "u", "p", "p", "o", "r", "t", "m", "a", "t", "r", "i", "x", ".", "p", "d", "f">>

\* The two digits of the major.
BlockMajors ==
    {<<"0", "8">>,
     <<"0", "9">>,
     <<"1", "0">>}

\* The digit of the minor.
BlockMinors ==
    {<<"0">>,
     <<"1">>}

\* The two digits of the patch.
BlockPatches ==
    {<<"1", "0">>,
     <<"2", "0">>,
     <<"9", "0">>,
     <<"9", "5">>}

\* The blocks of 5 digits, and one of 4 and one of 6.
Blocks ==
    {major \o minor \o patch :
        major \in BlockMajors, minor \in BlockMinors, patch \in BlockPatches}
        \cup {<<"0", "8", "0", "9">>,
              <<"0", "8", "0", "9", "0", "1">>}

\* The versions the two parsers give for the filenames of the blocks, each
\* evaluated once.
feature_version_of ==
    [b \in Blocks |->
        features_extract_version_from_filename(S_fastiron \o b \o S_featurematrix_pdf)]

defect_version_of ==
    [b \in Blocks |->
        extract_version_from_filename(S_fastiron \o b \o S_releasenotes_pdf)]

\* No dataset is written.
CheckIdle ==
    /\ release_block = EmptyStr
    /\ feature_versions = {}
    /\ defect_versions = {}
    /\ overlap = {}
    /\ written = {}
    /\ vpc = "idle"

InitCheck(blocks) ==
    /\ release_block \in blocks
    /\ feature_versions = {}
    /\ defect_versions = {}
    /\ overlap = {}
    /\ written = {}
    /\ vpc = "extract"

\* extract_features.py on fastiron-<release_block>-featuresupportmatrix.pdf: the
\* 'version' of its feature records; nothing without a version.
WriteFeatures ==
    /\ vpc = "extract"
    /\ "features" \notin written
    /\ feature_versions' = IF feature_version_of[release_block] = None THEN {}
                           ELSE {feature_version_of[release_block]}
    /\ written' = written \cup {"features"}
    /\ UNCHANGED <<release_block, defect_versions, overlap, vpc>>
    /\ UNCHANGED <<mergeVars, docVars, mainVars, featVars>>

\* extract_issues.py on fastiron-<release_block>-releasenotes-1.0.pdf: the keys of
\* version_history of its defects; nothing without a version.
WriteDefects ==
    /\ vpc = "extract"
    /\ "defects" \notin written
    /\ defect_versions' = IF defect_version_of[release_block] = None THEN {}
                          ELSE {defect_version_of[release_block]}
    /\ written' = written \cup {"defects"}
    /\ UNCHANGED <<release_block, feature_versions, overlap, vpc>>
    /\ UNCHANGED <<mergeVars, docVars, mainVars, featVars>>

\* check_versions.py: overlap = feature_versions.intersection(defect_versions)
CheckOverlap ==
    /\ vpc = "extract"
    /\ written = {"features", "defects"}
    /\ overlap' = feature_versions \cap defect_versions
    /\ vpc' = "checked"
    /\ UNCHANGED <<release_block, feature_versions, defect_versions, written>>
    /\ UNCHANGED <<mergeVars, docVars, mainVars, featVars>>

NextCheck ==
    \/ WriteFeatures
    \/ WriteDefects
    \/ CheckOverlap

\* extract_defects_from_pdf as a function of a document: the page loop and the
\* table loop folded.
RECURSIVE ExtractTables(_, _, _, _)
ExtractTables(map, table_list, ver, status) ==
    IF table_list = <<>> THEN map
    ELSE IF record_of[Head(table_list)] = <<>>
    THEN ExtractTables(map, Tail(table_list), ver, status)
    ELSE ExtractTables(Recorded(map, record_of[Head(table_list)][1], ver, status),
                       Tail(table_list), ver, status)

RECURSIVE ExtractPages(_, _, _, _)
ExtractPages(map, status, page_list, ver) ==
    IF page_list = <<>> THEN map
    ELSE LET page_text  == Head(page_list).text
             new_status == StatusAfter(status, page_text)
         IN  IF SkipsPage(new_status, page_text)
             THEN ExtractPages(map, new_status, Tail(page_list), ver)
             ELSE ExtractPages(ExtractTables(map, Head(page_list).tables, ver, new_status),
                               new_status, Tail(page_list), ver)

ExtractDefects(name, page_list) ==
    IF version_of[name] = None THEN EmptyMap
    ELSE ExtractPages(EmptyMap, NoStatus, page_list, version_of[name])

\* ---------------------------------------------------------------------- main

\* main has found no file and written nothing.
MainIdle ==
    /\ defects_list = <<>>
    /\ pdf_files = <<>>
    /\ file_idx = 0
    /\ all_defects = <<>>

\* pdf_files = sorted(release_notes_dir.glob(...)); all_defects = []
InitMain(corpora) ==
    /\ pdf_files \in corpora
    /\ file_idx = 0
    /\ all_defects = <<>>
    /\ defects_list = <<>>

\* for idx, pdf_file in enumerate(pdf_files, 1): the call of
\* extract_defects_from_pdf(pdf_file)
CallExtract ==
    /\ pc = "idle"
    /\ dpc = "idle"
    /\ file_idx < Len(pdf_files)
    /\ pdf_name' = pdf_files[file_idx + 1].name
    /\ pages' = pdf_files[file_idx + 1].pages
    /\ version' = None
    /\ page_num' = 0
    /\ tables' = <<>>
    /\ current_status' = NoStatus
    /\ defects_by_fi' = EmptyMap
    /\ pages_with_defects' = 0
    /\ dpc' = "open"
    /\ UNCHANGED <<mergeVars, mainVars, featVars, checkVars>>

\* The loop left at the first file that gives an empty map: a plausible slip.
AppendDefectsOrStop ==
    /\ pc = "idle"
    /\ dpc = "done"
    /\ file_idx < Len(pdf_files)
    /\ all_defects' = Append(all_defects, defects_by_fi)
    /\ file_idx' = IF defects_by_fi = EmptyMap THEN Len(pdf_files) ELSE file_idx + 1
    /\ pdf_name' = EmptyStr
    /\ pages' = <<>>
    /\ version' = None
    /\ page_num' = 0
    /\ tables' = <<>>
    /\ current_status' = NoStatus
    /\ defects_by_fi' = EmptyMap
    /\ pages_with_defects' = 0
    /\ dpc' = "idle"
    /\ UNCHANGED <<defects_list, pdf_files>>
    /\ UNCHANGED <<mergeVars, featVars, checkVars>>

\* all_defects.append(defects)
AppendDefects ==
    /\ pc = "idle"
    /\ dpc = "done"
    /\ file_idx < Len(pdf_files)
    /\ all_defects' = Append(all_defects, defects_by_fi)
    /\ file_idx' = file_idx + 1
    /\ pdf_name' = EmptyStr
    /\ pages' = <<>>
    /\ version' = None
    /\ page_num' = 0
    /\ tables' = <<>>
    /\ current_status' = NoStatus
    /\ defects_by_fi' = EmptyMap
    /\ pages_with_defects' = 0
    /\ dpc' = "idle"
    /\ UNCHANGED <<defects_list, pdf_files>>
    /\ UNCHANGED <<mergeVars, featVars, checkVars>>

\* merged_defects = merge_defects(all_defects)
CallMerge ==
    /\ pc = "idle"
    /\ dpc = "idle"
    /\ pdf_files # <<>>
    /\ file_idx = Len(pdf_files)
    /\ all_defects_by_pdf' = all_defects
    /\ given' = all_defects
    /\ merged' = EmptyMap
    /\ pdf_idx' = 0
    /\ todo' = {}
    /\ list_owner' = EmptyMap
    /\ pc' = "merge"
    /\ UNCHANGED <<docVars, mainVars, featVars, checkVars>>

NextMain ==
    \/ CallExtract
    \/ NextDoc
    \/ AppendDefects
    \/ CallMerge
    \/ NextMerge
    \/ DumpLedger

\* clean_version is not running.
FeatIdle ==
    /\ version_str = EmptyStr
    /\ cleaned = None
    /\ fpc = "idle"

vars == <<mergeVars, docVars, mainVars, featVars, checkVars>>

\* ----------------------------------------------------------- the runs

\* Runs of extract_defects_from_pdf over documents of MaxPages pages.
InitDocRun ==
    /\ InitDoc(PdfNames, [1..MaxPages -> Pages])
    /\ MergeIdle /\ MainIdle /\ FeatIdle /\ CheckIdle

SpecDoc == InitDocRun /\ [][NextDoc]_vars

\* Runs of extract_defects_from_pdf over documents of one page with one table.
InitTableRun ==
    /\ InitDoc(PdfNames, {<<[text |-> page_text, tables |-> <<table>>]>> :
                             page_text \in TablePageTexts, table \in TableCases})
    /\ MergeIdle /\ MainIdle /\ FeatIdle /\ CheckIdle

SpecTables == InitTableRun /\ [][NextDoc]_vars

\* Runs of extract_defects_from_pdf over documents of one page, of every name.
InitNameRun ==
    /\ InitDoc(PdfNames \cup FilenameCases,
               {<<[text |-> page_text, tables |-> table_list]>> :
                   page_text \in PageTexts, table_list \in TableLists})
    /\ MergeIdle /\ MainIdle /\ FeatIdle /\ CheckIdle

SpecNames == InitNameRun /\ [][NextDoc]_vars

\* Calls of clean_version on the raw tokens.
InitCleanRun ==
    /\ InitClean(RawVersions)
    /\ MergeIdle /\ MainIdle /\ DocIdle /\ CheckIdle

SpecClean == InitCleanRun /\ [][NextClean]_vars

\* ------------------------------------------------------- the files of main

MaxFiles == 3

\* Names the glob fastiron-*-releasenotes*.pdf finds: three with a version and
\* one without.
CorpusNames ==
    {S_fastiron \o block \o S_releasenotes_pdf :
        block \in {<<"0", "8", "0", "9", "5">>, <<"0", "9", "0", "1", "0">>, <<"1", "0", "0", "2", "0">>, <<"0", "8", "0", "9">>}}

\* Pages of the documents of a corpus.
CorpusPages ==
    {[text |-> page_text, tables |-> table_list] :
        page_text \in {<<"C", "l", "o", "s", "e", "d", " ", "I", "s", "s", "u", "e", "s", " ", "w", "i", "t", "h", " ", "C", "o", "d", "e", " ", "C", "h", "a", "n", "g", "e", "s">>,
                       <<"K", "n", "o", "w", "n", " ", "I", "s", "s", "u", "e", "s">>},
        table_list \in {<<Table_A1>>, <<Table_A2, Table_Short, Table_B>>}}
        \cup {[text |-> <<"O", "v", "e", "r", "v", "i", "e", "w">>, tables |-> <<Table_A1>>],
              [text |-> <<"K", "n", "o", "w", "n", " ", "I", "s", "s", "u", "e", "s">>, tables |-> <<>>]}

CorpusDocs == [name : CorpusNames, pages : {<<page>> : page \in CorpusPages}]

\* sorted(...): the files in the order of their names, no name twice.
Corpora ==
    UNION {{files \in [1..n -> CorpusDocs] :
               \A i \in 1..(n - 1) : StrLess(files[i].name, files[i + 1].name)} :
           n \in 1..MaxFiles}

InitMainRun == InitMain(Corpora) /\ DocIdle /\ MergeIdle /\ FeatIdle /\ CheckIdle

SpecMain == InitMainRun /\ [][NextMain]_vars

\* Comparisons of the two datasets, one release each.
InitCheckRun ==
    /\ InitCheck(Blocks)
    /\ MergeIdle /\ MainIdle /\ DocIdle /\ FeatIdle

SpecCheck == InitCheckRun /\ [][NextCheck]_vars

\* ------------------------------------------- the lists given to the merge

\* One defect followed through MaxDocs documents of every version and status.
HistoryInputs ==
    [1..MaxDocs -> {WithIds(m) : m \in DocMaps({FI_99}, Versions, Statuses,
                        {TextOf({"symptom"}, <<"a">>)}, {<<V_8_0_90>>})}]

\* One defect whose records differ in their texts and 'Found In' citations.
FieldInputs ==
    [1..MaxDocs -> {WithIds(m) : m \in DocMaps({FI_99}, {V_8_0_90, V_10_0_10},
                        {"known"}, TextProfiles, FoundLists)}]

\* Two defects in MaxPairDocs documents.
PairInputs ==
    [1..MaxPairDocs -> {WithIds(m) : m \in DocMaps(Ids, Versions, Statuses,
                        {TextOf({"symptom"}, <<"a">>)}, {<<V_8_0_90>>})}]

\* Majors of one and of two digits.
GrammarMajors ==
    {<<"8">>,
     <<"9">>,
     <<"0", "8">>,
     <<"1", "0">>}

\* Patches.
GrammarPatches ==
    {<<"1", "0">>,
     <<"9", "0">>}

\* Suffixes: letters, a CD suffix, both.
GrammarSuffixes ==
    {EmptyStr,
     <<"a">>,
     <<"a", "b">>,
     <<"B">>,
     <<"_", "c", "d", "1">>,
     <<"_", "c", "d", "2">>,
     <<"_", "c", "d", "1", "0">>,
     <<"a", "_", "c", "d", "1">>}

\* Version strings of the strict grammar, as keys of version_history.
GrammarVersions ==
    {major \o <<".", "0", ".">> \o patch \o suffix :
        major \in GrammarMajors, patch \in GrammarPatches, suffix \in GrammarSuffixes}

\* One defect in two documents of every pair of these versions.
OrderInputs ==
    [1..2 -> {WithIds(m) : m \in DocMaps({FI_99}, GrammarVersions, {"known"},
                        {TextOf({"symptom"}, <<"a">>)}, {<<V_8_0_90>>})}]

Init ==
    /\ InitMerge(HistoryInputs \cup FieldInputs \cup PairInputs)
    /\ MainIdle /\ DocIdle /\ FeatIdle /\ CheckIdle

\* main: the merge, then the list.
Next == NextMerge \/ DumpLedger

Spec == Init /\ [][Next]_vars

\* Runs of the merge over the pairs of versions.
InitOrderRun == InitMerge(OrderInputs) /\ MainIdle /\ DocIdle /\ FeatIdle /\ CheckIdle

SpecOrder == InitOrderRun /\ [][Next]_vars

\* ------------------------------------------- the canonical order of versions

RECURSIVE ToInt(_)
ToInt(s) ==
    IF s = <<>> THEN 0 ELSE 10 * ToInt(SubSeq(s, 1, Len(s) - 1)) + DigitVal(s[Len(s)])

\* Length of the prefix of s before the first '_' (all of s if there is none).
RECURSIVE UntilUnderscore(_)
UntilUnderscore(s) ==
    IF s = <<>> \/ Head(s) = "_" THEN 0 ELSE 1 + UntilUnderscore(Tail(s))

\* {major}.{minorDigit}.{patch}{letterSuffix}{cdSuffix} read back into its parts.
VersionId(v) ==
    LET n1    == DigitRun(v)
        rest1 == Drop(v, n1 + 1)
        n2    == DigitRun(rest1)
        rest2 == Drop(rest1, n2 + 1)
        n3    == DigitRun(rest2)
        rest3 == Drop(rest2, n3)
        n4    == UntilUnderscore(rest3)
    IN  [major        |-> ToInt(SubSeq(v, 1, n1)),
         minorDigit   |-> ToInt(SubSeq(rest1, 1, n2)),
         patch        |-> ToInt(SubSeq(rest2, 1, n3)),
         letterSuffix |-> SubSeq(rest3, 1, n4),
         cdSuffix     |-> Drop(rest3, n4)]

\* The canonical comparator: (major, minorDigit, patch) as numbers, ties broken
\* by letterSuffix, then cdSuffix, as strings.
CanonLess(a, b) ==
    LET x == VersionId(a)
        y == VersionId(b)
    IN  IF x.major # y.major THEN x.major < y.major
        ELSE IF x.minorDigit # y.minorDigit THEN x.minorDigit < y.minorDigit
        ELSE IF x.patch # y.patch THEN x.patch < y.patch
        ELSE IF x.letterSuffix # y.letterSuffix
             THEN StrLess(x.letterSuffix, y.letterSuffix)
        ELSE StrLess(x.cdSuffix, y.cdSuffix)

CanonLeq(a, b) == a = b \/ CanonLess(a, b)

CanonMin(S) == CHOOSE x \in S : \A y \in S : CanonLeq(x, y)

CanonMax(S) == CHOOSE x \in S : \A y \in S : CanonLeq(y, x)

Keys(fi_num) == DOMAIN merged[fi_num].version_history

ClosedKeys(fi_num) ==
    {v \in Keys(fi_num) : merged[fi_num].version_history[v] = "closed"}

\* --------------------------------------------------- claims: merge_defects

\* C1: after merge_defects, first_seen of every defect is a key of its
\* version_history and is <= every key in the canonical (integer-major) order.
C1_FirstSeenCanonicalEarliest ==
    pc = "done" =>
        \A fi_num \in DOMAIN merged :
            /\ merged[fi_num].first_seen \in Keys(fi_num)
            /\ \A k \in Keys(fi_num) : CanonLeq(merged[fi_num].first_seen, k)

\* C2: after merge_defects, fixed_in of every defect with a 'closed' entry is
\* the canonically earliest key whose status is 'closed'.
C2_FixedInCanonicalEarliestClosed ==
    pc = "done" =>
        \A fi_num \in DOMAIN merged :
            ClosedKeys(fi_num) # {} =>
                merged[fi_num].fixed_in = CanonMin(ClosedKeys(fi_num))

\* C3: after merge_defects, current_status of every defect is the status
\* stored at the canonically latest key of its version_history.
C3_CurrentStatusAtCanonicalLatest ==
    pc = "done" =>
        \A fi_num \in DOMAIN merged :
            merged[fi_num].current_status =
                merged[fi_num].version_history[CanonMax(Keys(fi_num))]

\* C4: after merge_defects, fixed_in is present iff some key of
\* version_history is 'closed', and a present fixed_in is a 'closed' key.
C4_FixedInIffClosed ==
    pc = "done" =>
        \A fi_num \in DOMAIN merged :
            /\ (merged[fi_num].fixed_in # None) <=> (ClosedKeys(fi_num) # {})
            /\ merged[fi_num].fixed_in # None =>
                   merged[fi_num].fixed_in \in ClosedKeys(fi_num)

\* A ledger with one defect that has fixed_in and 'known' keys too, and one
\* defect without any 'closed' key.
C4_Witness ==
    /\ pc = "done"
    /\ \E fi_num \in DOMAIN merged :
           /\ merged[fi_num].fixed_in # None
           /\ ClosedKeys(fi_num) # Keys(fi_num)
    /\ \E fi_num \in DOMAIN merged :
           /\ merged[fi_num].fixed_in = None
           /\ Keys(fi_num) # {}

\* The entry of map i for fi_num has been merged.
Processed(i, fi_num) ==
    /\ fi_num \in DOMAIN given[i]
    /\ i < pdf_idx \/ (i = pdf_idx /\ fi_num \notin todo)

\* The processed maps that assert a status for fi_num at version v.
Asserting(fi_num, v) ==
    {i \in 1..Len(given) :
        Processed(i, fi_num) /\ v \in DOMAIN given[i][fi_num].version_history}

Last(S) == CHOOSE i \in S : \A j \in S : j <= i

\* C5: when several maps assert a status for the same defect at the same
\* version key, version_history holds for that key the status of the last of
\* them in the sequence; every key holds the status of the last map that
\* asserted that key, so a later map changes no other key.
C5_LastWriterWinsPerVersionKey ==
    \A fi_num \in DOMAIN merged :
        \A v \in Keys(fi_num) :
            /\ Asserting(fi_num, v) # {}
            /\ merged[fi_num].version_history[v] =
                   given[Last(Asserting(fi_num, v))][fi_num].version_history[v]

\* Two maps disagree about one version key of a defect that has another key,
\* asserted before them, as well.
C5_Witness ==
    \E fi_num \in DOMAIN merged :
        \E v \in Keys(fi_num), w \in Keys(fi_num) :
            \E i \in Asserting(fi_num, v), j \in Asserting(fi_num, v) :
                /\ v # w
                /\ i < j
                /\ given[i][fi_num].version_history[v] = "closed"
                /\ given[j][fi_num].version_history[v] = "known"
                /\ \A k \in Asserting(fi_num, w) : k < i

Permuted(maps, p) == [i \in 1..Len(maps) |-> maps[p[i]]]

HistoryPairs(vh) == {<<v, vh[v]>> : v \in DOMAIN vh}

\* The (version, status) pairs the maps assert for fi_num.
Assertions(maps, fi_num) ==
    UNION {HistoryPairs(maps[i][fi_num].version_history) :
              i \in {j \in 1..Len(maps) : fi_num \in DOMAIN maps[j]}}

\* No two maps assert the same (defect id, version) pair.
NoRepeatedAssertion(maps) ==
    \A i \in 1..Len(maps), j \in 1..Len(maps) :
        i # j =>
            \A fi_num \in DOMAIN maps[i] \cap DOMAIN maps[j] :
                DOMAIN maps[i][fi_num].version_history
                    \cap DOMAIN maps[j][fi_num].version_history = {}

\* C6: for maps in which no two assert the same (defect id, version), every
\* permutation of the sequence yields the same version_history for every
\* defect: exactly the asserted (version, status) pairs.
C6_HistoryIsOrderIndependent ==
    (pc = "done" /\ NoRepeatedAssertion(given)) =>
        /\ \A fi_num \in DOMAIN merged :
               HistoryPairs(merged[fi_num].version_history)
                   = Assertions(given, fi_num)
        /\ \A p \in Permutations(1..Len(given)) :
               LET other == MergeDefects(Permuted(given, p))
               IN  /\ DOMAIN other = DOMAIN merged
                   /\ \A fi_num \in DOMAIN merged :
                          other[fi_num].version_history
                              = merged[fi_num].version_history

\* A defect asserted at three versions by maps that are not in version order.
C6_Witness ==
    /\ pc = "done"
    /\ NoRepeatedAssertion(given)
    /\ \E fi_num \in DOMAIN merged :
           /\ Cardinality(Keys(fi_num)) = 3
           /\ fi_num \in DOMAIN given[1] \cap DOMAIN given[2]
           /\ V_10_0_10 \in DOMAIN given[1][fi_num].version_history
           /\ V_8_0_90 \in DOMAIN given[2][fi_num].version_history

\* C7: once a text field of a defect is non-empty in the ledger no later map
\* changes it; an empty field takes the value of the next map merged for that
\* defect (so the first non-empty one in sequence order), and is left alone by
\* every other step.
C7_FillIfEmpty ==
    [][\A fi_num \in DOMAIN merged :
          \A f \in TextFields :
              /\ merged[fi_num][f] # EmptyStr =>
                     merged'[fi_num][f] = merged[fi_num][f]
              /\ (merged[fi_num][f] = EmptyStr /\ fi_num \in todo \ todo') =>
                     merged'[fi_num][f] = all_defects_by_pdf[pdf_idx][fi_num][f]
              /\ (merged[fi_num][f] = EmptyStr /\ fi_num \notin todo \ todo') =>
                     merged'[fi_num][f] = EmptyStr
      ]_vars

\* An empty field met two different non-empty values and kept the first one,
\* and a non-empty field met a different value and kept its own.
C7_Witness ==
    /\ pc = "done"
    /\ Len(given) >= 3
    /\ \E fi_num \in DOMAIN merged :
           /\ \A i \in 1..3 : fi_num \in DOMAIN given[i]
           /\ given[1][fi_num].condition = EmptyStr
           /\ given[2][fi_num].condition = <<"b">>
           /\ given[3][fi_num].condition = <<"c">>
           /\ merged[fi_num].condition = <<"b">>
           /\ merged[fi_num].recovery = <<"c">>
           /\ merged[fi_num].symptom = <<"a">>

Range(list) == {list[i] : i \in 1..Len(list)}

NoDuplicates(list) ==
    \A i \in 1..Len(list), j \in 1..Len(list) : list[i] = list[j] => i = j

\* The versions cited in 'Found In' by the records given for fi_num.
Cited(fi_num) ==
    UNION {Range(given[i][fi_num].found_in) :
              i \in {j \in 1..Len(given) : fi_num \in DOMAIN given[j]}}

\* C8: after merge_defects, found_in of every defect holds each version cited
\* by a record for that defect exactly once, and nothing else.
C8_FoundInIsDeduplicatedUnion ==
    pc = "done" =>
        \A fi_num \in DOMAIN merged :
            /\ NoDuplicates(merged[fi_num].found_in)
            /\ Range(merged[fi_num].found_in) = Cited(fi_num)

\* maps with map i repeated right after itself.
Doubled(maps, i) == SubSeq(maps, 1, i) \o SubSeq(maps, i, Len(maps))

\* maps without map i.
Without(maps, i) == SubSeq(maps, 1, i - 1) \o SubSeq(maps, i + 1, Len(maps))

\* C9: merging a map twice in a row yields the ledger of merging it once, in
\* every field: the ledger of the list given equals the ledger of the list
\* with any one of its maps doubled, and, where the list given holds a map
\* twice in a row, the ledger of the list without the second of the two.
C9_MergeTwiceIsMergeOnce ==
    pc = "done" =>
        /\ \A i \in 1..Len(given) : MergeDefects(Doubled(given, i)) = merged
        /\ \A i \in 1..(Len(given) - 1) :
               given[i] = given[i + 1] => MergeDefects(Without(given, i + 1)) = merged

\* A map with repeated citations and texts of its own is given twice in a row
\* after a map that introduced the defect at another version.
C9_Witness ==
    /\ pc = "done"
    /\ Len(given) = 3
    /\ given[2] = given[3]
    /\ \E fi_num \in DOMAIN given[1] \cap DOMAIN given[2] :
           /\ given[1][fi_num].found_in = <<V_10_0_10, V_8_0_90>>
           /\ given[2][fi_num].found_in = <<V_8_0_90, V_8_0_90>>
           /\ given[1][fi_num].condition = EmptyStr
           /\ given[2][fi_num].condition = <<"b">>
           /\ DOMAIN given[1][fi_num].version_history
                  # DOMAIN given[2][fi_num].version_history

\* The step-by-step run and the function agree on the ledger.
FoldAgrees == pc = "done" => merged = MergeDefects(given)

\* ------------------------------------------ claims: extract_defects_from_pdf

\* C10: within one document, the entry of a defect id is the one the first
\* table parsed for that id produced, status included: once an id has its
\* entry, no later step (no later table for that id) changes the entry.
C10_EntryKeptFromFirstTable ==
    [][\A fi_num \in DOMAIN defects_by_fi :
          defects_by_fi'[fi_num] = defects_by_fi[fi_num]]_vars

\* The pages among the first n whose text carries a section heading.
HeadingPages(n) == {k \in 1..n : section_of[pages[k].text] # NoStatus}

\* The section state after the first n pages, read from the texts alone: the
\* heading of the last page that has one.
SectionStateAfter(n) ==
    IF HeadingPages(n) = {} THEN NoStatus
    ELSE section_of[pages[CHOOSE k \in HeadingPages(n) :
                              \A j \in HeadingPages(n) : j <= k].text]

\* C11: the status recorded for a table that parses is the section state
\* after the text of its page has been applied, 'closed' or 'known' when a
\* heading was seen on this or an earlier page, and 'known' when none was.
C11_StatusIsSectionStateOfPage ==
    [][pages_with_defects' = pages_with_defects + 1 =>
          LET fi_num == record_of[Head(tables)][1].id
              state  == SectionStateAfter(page_num)
          IN  defects_by_fi'[fi_num].version_history[version] =
                  IF state = NoStatus THEN "known" ELSE state]_vars

\* A table recorded before any heading was seen, with the default status.
C11_Witness ==
    /\ pages_with_defects > 0
    /\ SectionStateAfter(page_num) = NoStatus
    /\ \E fi_num \in DOMAIN defects_by_fi :
           defects_by_fi[fi_num].version_history[version] = "known"

\* The headings of the page texts of the runs, pattern by pattern.
closed_heading == [page_text \in TablePageTexts |-> MatchesClosed(page_text)]

known_heading == [page_text \in TablePageTexts |-> MatchesKnown(page_text)]

\* C12: a page whose text matches neither heading pattern leaves the section
\* state as it was after the previous page; a page that matches the closed
\* pattern sets it to 'closed', one that matches only the known pattern to
\* 'known'.
C12_SectionStateCarriesOver ==
    [][page_num' = page_num + 1 =>
          LET page_text == pages[page_num + 1].text
          IN  current_status' =
                  IF closed_heading[page_text] THEN "closed"
                  ELSE IF known_heading[page_text] THEN "known"
                  ELSE current_status]_vars

\* A page without a heading read after a page that set the state, and a page
\* with both headings.
C12_Witness ==
    /\ page_num = 3
    /\ closed_heading[pages[1].text] /\ known_heading[pages[1].text]
    /\ known_heading[pages[2].text] /\ ~closed_heading[pages[2].text]
    /\ ~closed_heading[pages[3].text] /\ ~known_heading[pages[3].text]
    /\ current_status = "known"

\* The ids of the tables of the document that parse_defect_table accepts.
ParsedIds ==
    UNION {{record_of[pages[k].tables[i]][1].id :
               i \in {i \in 1..Len(pages[k].tables) :
                         record_of[pages[k].tables[i]] # <<>>}} :
           k \in 1..Len(pages)}

\* C13: for a document whose filename has a version V, the keys of the
\* returned map are exactly the ids of the tables, on any page, that
\* parse_defect_table accepts, and each entry's version_history has the one
\* key V.
C13_KeysAreAllParsedIds ==
    (dpc = "done" /\ version_of[pdf_name] # None) =>
        /\ DOMAIN defects_by_fi = ParsedIds
        /\ \A fi_num \in DOMAIN defects_by_fi :
               DOMAIN defects_by_fi[fi_num].version_history = {version_of[pdf_name]}

\* C14: a document whose filename gives no version returns an empty map
\* whatever its pages hold, and none of its pages is read.
C14_NoVersionNoPages ==
    version_of[pdf_name] = None =>
        /\ defects_by_fi = EmptyMap
        /\ page_num = 0
        /\ tables = <<>>
        /\ pages_with_defects = 0

\* Such a document, returned, with a table that parses on a page under a
\* heading.
C14_Witness ==
    /\ dpc = "done"
    /\ version_of[pdf_name] = None
    /\ \E k \in 1..Len(pages) :
           /\ section_of[pages[k].text] # NoStatus
           /\ \E i \in 1..Len(pages[k].tables) : record_of[pages[k].tables[i]] # <<>>

\* ----------------------------------------------- claims: parse_defect_table

\* The tables of the document, page after page.
TablesOfDocument ==
    UNION {{pages[k].tables[i] : i \in 1..Len(pages[k].tables)} : k \in 1..Len(pages)}

\* The text of a cell without the whitespace around it.
Trimmed(cell) == Strip(cell)

\* FI-<digits> at the start of a text.
StartsWithFIDigits(cell) ==
    /\ Len(cell) >= 4
    /\ SubSeq(cell, 1, 3) = <<"F", "I", "-">>
    /\ cell[4] \in Digits

\* The four conditions of a defect table: at least 7 rows, a first row of
\* exactly 2 cells, 'issue' in the first (whatever the case), FI-<digits> at
\* the start of the second.
PassesGate(table) ==
    /\ Len(table) >= 7
    /\ Len(table[1]) = 2
    /\ Lower(Trimmed(table[1][1])) = <<"i", "s", "s", "u", "e">>
    /\ StartsWithFIDigits(Trimmed(table[1][2]))

V_8_0_95 == <<"8", ".", "0", ".", "9", "5">>

\* C16: the three-row table [[Issue, FI-100203], [Symptom, Device X reboots],
\* [Found In, FI 8.0.90]], met on a page of the 'known' section of a document
\* whose filename version is 8.0.95, gives the entry with id FI-100203,
\* symptom 'Device X reboots' and version_history {8.0.95: known}.
C16_ThreeRowTableGivesEntry ==
    (/\ dpc = "done"
     /\ version = V_8_0_95
     /\ Len(pages) = 1
     /\ section_of[pages[1].text] = "known"
     /\ pages[1].tables = <<Table_Short>>)
        => /\ FI_100203 \in DOMAIN defects_by_fi
           /\ defects_by_fi[FI_100203].id = FI_100203
           /\ defects_by_fi[FI_100203].symptom = <<"D", "e", "v", "i", "c", "e", " ", "X", " ", "r", "e", "b", "o", "o", "t", "s">>
           /\ defects_by_fi[FI_100203].version_history = (V_8_0_95 :> "known")

\* Every Symptom row of the table has a value of whitespace only (a table
\* without a Symptom row included).
SymptomIsBlank(table) ==
    \A r \in 1..Len(table) :
        (Len(table[r]) >= 2 /\ Contains(<<"s", "y", "m", "p", "t", "o", "m">>, Lower(table[r][1])))
            => \A c \in 1..Len(table[r][2]) : table[r][2][c] \in Whitespace

\* C17: a table that passes the gate but whose symptom is empty after
\* cleaning (no Symptom row, or one with an empty or whitespace-only value)
\* gives no record: the step that visits it adds no key to the map of the
\* document and no version_history entry.
C17_BlankSymptomGivesNoRecord ==
    [][(/\ tables # <<>>
        /\ tables' = Tail(tables)
        /\ PassesGate(Head(tables))
        /\ SymptomIsBlank(Head(tables)))
          => /\ record_of[Head(tables)] = <<>>
             /\ defects_by_fi' = defects_by_fi
             /\ pages_with_defects' = pages_with_defects]_vars

\* A table that passes the gate, with a Symptom row of whitespace only, met
\* under a heading and passed over.
C17_Witness ==
    /\ dpc = "done"
    /\ page_num = 1
    /\ section_of[pages[1].text] # NoStatus
    /\ PassesGate(pages[1].tables[1])
    /\ SymptomIsBlank(pages[1].tables[1])
    /\ pages[1].tables[1][2][2] # EmptyStr
    /\ defects_by_fi = EmptyMap

\* A version read by the strict grammar: 1-2 digits of major, '.0.', 2 digits
\* of patch, 0-2 letters, then nothing or '_cd' and 1-2 digits.
StrictParse(v) ==
    LET d1     == DigitRun(v)
        rest   == Drop(v, d1)
        p      == Drop(rest, 3)
        suffix == Drop(p, 2)
        l      == Run(suffix, Letters)
        cd     == Drop(suffix, l)
    IN  [ok     |-> /\ d1 \in {1, 2}
                    /\ Take(rest, 3) = <<".", "0", ".">>
                    /\ Len(p) >= 2 /\ p[1] \in Digits /\ p[2] \in Digits
                    /\ l <= 2
                    /\ \/ cd = <<>>
                       \/ /\ Lower(Take(cd, 3)) = <<"_", "c", "d">>
                          /\ DigitRun(Drop(cd, 3)) \in {1, 2}
                          /\ Len(cd) = 3 + DigitRun(Drop(cd, 3)),
         major  |-> Take(v, d1),
         patch  |-> Take(p, 2),
         suffix |-> suffix]

\* The canonical form: the major without its leading zero, '.0.', the patch,
\* the suffix in lower case.
Canonical(parts) ==
    (IF Len(parts.major) = 2 /\ parts.major[1] = "0" THEN <<parts.major[2]>> ELSE parts.major)
        \o <<".", "0", ".">> \o parts.patch \o Lower(parts.suffix)

\* C18: every entry of found_in of a record parse_defect_table returns is a
\* version that passes the strict grammar, in canonical form; a cited token
\* that fails the grammar (FI 08.1.5, FI 10.0.20_cd111) is dropped.
C18_FoundInPassesStrictGrammar ==
    \A fi_num \in DOMAIN defects_by_fi :
        \A j \in 1..Len(defects_by_fi[fi_num].found_in) :
            LET v == defects_by_fi[fi_num].found_in[j]
            IN  StrictParse(v).ok /\ v = Canonical(StrictParse(v))

\* ------------------------------------------------------------ claims: main

\* The number after 'FI-' in a defect id.
IdNumber(fi_num) == ToInt(Drop(fi_num, 3))

\* C19: the list main writes is ordered by the numeric value of the digits
\* after 'FI-' in each id, so that FI-99 comes before FI-100.
C19_LedgerInNumericOrder ==
    pc = "written" =>
        \A i, j \in 1..Len(defects_list) :
            i < j => IdNumber(defects_list[i].id) < IdNumber(defects_list[j].id)

\* --------------------------------------------------- claims: clean_version

\* C20: clean_version returns "No" for every raw token that does not itself
\* match the strict grammar, whatever the case of its letters (no token is
\* repaired into a version by removing characters from it; the whitespace
\* around the token is not counted with it), and for a token that matches
\* returns the major without leading zero, '.0.', the 2-digit patch and the
\* suffix in lower case.
C20_CleanVersionRejectsWithoutRepair ==
    fpc = "return" =>
        cleaned = IF StrictParse(Trimmed(version_str)).ok
                  THEN Canonical(StrictParse(Trimmed(version_str)))
                  ELSE <<"N", "o">>

\* C21: for every raw token clean_version accepts (every token that matches
\* the strict grammar, and every other token it gives a version for), the
\* result is never "No" and applying clean_version to the result returns
\* that same result.
C21_CleanVersionIsIdempotent ==
    (fpc = "return" /\ (StrictParse(version_str).ok \/ cleaned # <<"N", "o">>)) =>
        /\ cleaned # <<"N", "o">>
        /\ clean_version(cleaned) = cleaned

\* A token of the grammar with a leading zero, capital letters and a CD
\* suffix, returned in another spelling.
C21_Witness ==
    /\ fpc = "return"
    /\ StrictParse(version_str).ok
    /\ version_str[1] = "0"
    /\ Contains(<<"_", "C", "D">>, version_str)
    /\ cleaned # <<"N", "o">>
    /\ cleaned # version_str

\* ----------------------------------- claims: extract_version_from_filename

\* The token of a filename fastiron-<token>-releasenotes-1.0.pdf.
TokenOf(name) == SubSeq(name, 10, Len(name) - 21)

\* 0 to 2 lower-case letters, then nothing or '_cd' and 1-2 digits.
CanonicalSuffix(t) ==
    LET l  == Run(t, {LowerCase[i] : i \in 1..Len(LowerCase)})
        cd == Drop(t, l)
    IN  /\ l <= 2
        /\ \/ cd = <<>>
           \/ /\ Take(cd, 3) = <<"_", "c", "d">>
              /\ DigitRun(Drop(cd, 3)) \in {1, 2}
              /\ Len(cd) = 3 + DigitRun(Drop(cd, 3))

\* {major}.{minor digit}.{two patch digits}{suffix}, the major without a
\* leading zero.
CanonicalVersion(v) ==
    LET d1   == DigitRun(v)
        rest == Drop(v, d1)
    IN  /\ d1 \in {1, 2}
        /\ (d1 = 2 => v[1] # "0")
        /\ Len(rest) >= 5
        /\ rest[1] = "." /\ rest[2] \in Digits /\ rest[3] = "."
        /\ rest[4] \in Digits /\ rest[5] \in Digits
        /\ CanonicalSuffix(Drop(rest, 5))

\* A token of 5 digits and a suffix of that shape.
CanonicalToken(t) == DigitRun(t) = 5 /\ CanonicalSuffix(Drop(t, 5))

\* C22: every version extract_version_from_filename returns has the
\* canonical form (major without leading zero, one minor digit, two patch
\* digits, 0 to 2 lower-case letters, an optional '_cd' with 1-2 digits), and
\* a filename token of any other shape (08095pb1, 10020B, 0809012) gives no
\* version.
C22_FilenameVersionIsCanonical ==
    (pdf_name \in FilenameCases /\ version # None) =>
        /\ CanonicalVersion(version)
        /\ CanonicalToken(TokenOf(pdf_name))

\* ------------------------------------------------- claims: the whole run

\* The map of the file at position i, from its name and pages alone.
MapOfFile(i) == ExtractDefects(pdf_files[i].name, pdf_files[i].pages)

\* C23: every record of the ledger merge_defects produces from maps that
\* extract_defects_from_pdf returned has a non-empty version_history, so its
\* first_seen is never None and its current_status is 'closed' or 'known',
\* never 'unknown'.
C23_HistoryNeverEmpty ==
    /\ \A i \in 1..Len(all_defects) : \A fi_num \in DOMAIN all_defects[i] :
           all_defects[i][fi_num].version_history # EmptyMap
    /\ (pdf_files # <<>> /\ pc \in {"done", "written"}) =>
           \A fi_num \in DOMAIN merged :
               /\ merged[fi_num].version_history # EmptyMap
               /\ merged[fi_num].first_seen # None
               /\ merged[fi_num].current_status \in {"closed", "known"}

\* A ledger of two defects made from three files.
C23_Witness ==
    /\ pc = "done"
    /\ Len(pdf_files) = 3
    /\ DOMAIN merged = {FI_100203, FI_100204}

\* The files that are skipped or give no defect: no version in the name, or
\* no table that parse_defect_table accepts.
GivesNothing(i) ==
    \/ version_of[pdf_files[i].name] = None
    \/ \A k \in 1..Len(pdf_files[i].pages) :
           \A t \in 1..Len(pdf_files[i].pages[k].tables) :
               record_of[pdf_files[i].pages[k].tables[t]] = <<>>

\* The maps of the files other than the one at position i, in order.
MapsWithout(i) ==
    [j \in 1..(Len(pdf_files) - 1) |-> IF j < i THEN MapOfFile(j) ELSE MapOfFile(j + 1)]

\* C24: a file that is skipped (no version in its name) or gives no defect
\* table does not stop the run: every other file is still extracted, in
\* order, and the ledger is the one of the files without it.
C24_SkippedFileChangesNothing ==
    (pdf_files # <<>> /\ pc = "done") =>
        /\ given = [j \in 1..Len(pdf_files) |-> MapOfFile(j)]
        /\ \A i \in 1..Len(pdf_files) :
               GivesNothing(i) => merged = MergeDefects(MapsWithout(i))

\* A run whose second file of three has no version, its neighbours giving
\* defects.
C24_Witness ==
    /\ pc = "done"
    /\ Len(pdf_files) = 3
    /\ version_of[pdf_files[1].name] = None \/ version_of[pdf_files[2].name] = None
    /\ \E i \in 1..2 : /\ version_of[pdf_files[i].name] = None
                       /\ given[i + 1] # EmptyMap
    /\ merged # EmptyMap

\* The fold agrees with the steps of extract_defects_from_pdf.
ExtractAgrees == dpc = "done" => defects_by_fi = ExtractDefects(pdf_name, pages)

\* ------------------------------------------ claims: the order of versions

\* The digits of the major of a version string.
MajorDigits(v) == DigitRun(v)

\* No capital letter in the version string.
InLowerCase(v) == \A i \in 1..Len(v) : v[i] \notin {UpperCase[k] : k \in 1..Len(UpperCase)}

\* The keys of every record are ordered by sorted() as the canonical order
\* has them: the first key is the canonical earliest.
SortedIsCanonical(fi_num) == merged[fi_num].first_seen = CanonMin(Keys(fi_num))

C26_BothHeadingsGiveClosed ==
    [][(/\ pages_with_defects' = pages_with_defects + 1
        /\ closed_heading[pages[page_num].text]
        /\ known_heading[pages[page_num].text])
          => /\ section_of[pages[page_num].text] = "closed"
             /\ defects_by_fi'[record_of[Head(tables)][1].id].version_history[version]
                    = "closed"]_vars

\* A table recorded on a page with the closed heading before the known one.
C26_Witness ==
    /\ pages_with_defects = 1
    /\ pages[1].text = Text_ClosedThenKnown
    /\ \E fi_num \in DOMAIN defects_by_fi :
           defects_by_fi[fi_num].version_history[version] = "closed"

\* C27: merge_defects leaves every map it is given unchanged: after the call
\* each input record has the text fields, the found_in list and the
\* version_history it had before.
C27_InputsUnchanged ==
    pc = "done" => all_defects_by_pdf = given

\* --------------------------------------------------- claims: check_versions

\* C28: for every block of 5 digits, the filename parser of the feature
\* matrices and the one of the release notes return the same version string,
\* so the version sets check_versions compares intersect on a release present
\* in both datasets.
C28_FilenameParsersAgree ==
    (vpc = "checked" /\ Len(release_block) = 5) =>
        /\ feature_versions = defect_versions
        /\ overlap # {}

\* ------------------------------------------- claims: the section state, later

\* C29: within one document the section state starts as none; once a page has
\* set it to 'closed' or 'known' no later step returns it to none; and from
\* that page on every page is read, none skipped by the filter: its tables
\* are the ones taken next, and each of them goes through parse_defect_table
\* before the page loop goes on.
C29_SectionStateStaysSet ==
    [][/\ (dpc = "open" /\ dpc' = "pages") => current_status' = NoStatus
       /\ current_status # NoStatus => current_status' # NoStatus
       /\ (page_num' = page_num + 1 /\ current_status' # NoStatus) =>
              /\ dpc' = "tables"
              /\ tables' = pages[page_num + 1].tables
       /\ (dpc = "tables" /\ current_status # NoStatus) =>
              /\ tables' # tables => tables # <<>> /\ tables' = Tail(tables)
              /\ dpc' # "tables" => tables = <<>>]_vars

\* A heading on the first page, and the third page read with its tables
\* though neither it nor the second has a heading or 'FI-' in its text.
C29_Witness ==
    /\ dpc = "tables"
    /\ page_num = 3
    /\ section_of[pages[1].text] # NoStatus
    /\ \A k \in {2, 3} :
           section_of[pages[k].text] = NoStatus /\ ~has_fi[pages[k].text]
    /\ current_status = section_of[pages[1].text]
    /\ tables = pages[3].tables
    /\ tables # <<>>

====
